---- MODULE Spec2Model ----
(***************************************************************************)
(* Code Intelligence & Process Orchestration core of the Artfical code     *)
(* editor, as src/Artfical_Code_Editor.py has it: the edition that holds   *)
(* every component.                                                        *)
(*                                                                         *)
(* The model is a state machine of the UI-owning thread's handlers, the    *)
(* installer threads and the child processes.  Each handler is one action. *)
(***************************************************************************)
EXTENDS Naturals, Sequences, FiniteSets

(***************************************************************************)
(* Bounds of the model.                                                    *)
(***************************************************************************)
\* longest source text, in lines
MaxLines == 1
\* installer threads that exist at one time (the referenced one and orphans)
MaxThreads == 2
\* QProcess objects that exist at one time and can still signal or be read
MaxProcs == 2
\* output chunks a child process writes before it exits
MaxChunks == 1
\* longest source text that is analysed, in lines
MaxSource == 3
\* tabs of the multi-tab edition that the New action can make, the first included
MaxTabs == 3

(***************************************************************************)
(* Source text.  A text is a sequence of lines; a line is one of the       *)
(* strings of Vocabulary.  "from . import z #~c" ends in a comment that    *)
(* holds a no-break space (U+00A0), written ~ here; "from . import z # c"  *)
(* is the same line with a plain space.                                    *)
(***************************************************************************)
None == "None"

Vocabulary ==
  { "import b.x, a", "from a.y import z", "from . import z #~c", "from . import z # c",
    "def f(:" }

RECURSIVE SeqsUpTo(_, _)
SeqsUpTo(S, n) ==
  IF n = 0 THEN { <<>> }
  ELSE LET shorter == SeqsUpTo(S, n - 1)
       IN  shorter \cup { Append(s, x) : s \in { t \in shorter : Len(t) = n - 1 }, x \in S }

\* every file content
Texts == SeqsUpTo(Vocabulary, MaxLines)

\* QTextDocument.toPlainText() of a line: U+00A0 is returned as a space
PlainLine(l) == IF l = "from . import z #~c" THEN "from . import z # c" ELSE l

\* what toPlainText() returns after setPlainText(t)
ToPlainText(t) == [ i \in 1..Len(t) |-> PlainLine(t[i]) ]

\* every content the editor widget can hold
PlainTexts == { ToPlainText(t) : t \in Texts }

Paths == { "main.py" }

\* the content of a path that holds no file
NoFile == << "NoFile" >>

(***************************************************************************)
(* AST-based import scanner (scan_imports_ast) and availability check.     *)
(* A dotted module name is the sequence of its segments.                   *)
(***************************************************************************)
\* ImportFrom.module of "from . import z": None
NoModule == <<>>

\* the lines of the source texts that are analysed: those of Vocabulary, and
\* compound statements with bodies indented by two and by four spaces
SourceLines ==
  Vocabulary \cup
    { "class C:", "def f():", "print(1)", "len(x)",
      "  import a.z", "  print(2)", "  def g():", "    from b import y" }

\* every source text that is analysed
Sources == SeqsUpTo(SourceLines, MaxSource)

\* the number of spaces a line starts with
Indent(l) ==
  CASE l \in { "  import a.z", "  print(2)", "  def g():" } -> 2
    [] l = "    from b import y"                            -> 4
    [] OTHER                                                -> 0

\* ast.parse of one line: the statement node, or a syntax error
ParseLine(l) ==
  CASE l = "import b.x, a"     -> [ type |-> "Import", names |-> << <<"b", "x">>, <<"a">> >> ]
    [] l = "  import a.z"      -> [ type |-> "Import", names |-> << <<"a", "z">> >> ]
    [] l = "from a.y import z" -> [ type |-> "ImportFrom", module |-> <<"a", "y">> ]
    [] l = "    from b import y" -> [ type |-> "ImportFrom", module |-> <<"b">> ]
    [] l \in { "from . import z #~c", "from . import z # c" }
                               -> [ type |-> "ImportFrom", module |-> NoModule ]
    [] l = "class C:"          -> [ type |-> "ClassDef", name |-> "C" ]
    [] l = "def f():"          -> [ type |-> "FunctionDef", name |-> "f" ]
    [] l = "  def g():"        -> [ type |-> "FunctionDef", name |-> "g" ]
    [] l = "print(1)"          -> [ type |-> "Expr", func |-> "print", text |-> "print(1)" ]
    [] l = "  print(2)"        -> [ type |-> "Expr", func |-> "print", text |-> "print(2)" ]
    [] l = "len(x)"            -> [ type |-> "Expr", func |-> "len", text |-> "len(x)" ]
    [] l = "def f(:"           -> [ type |-> "SyntaxError" ]

\* a statement that must be followed by an indented body
IsCompound(stmt) == stmt.type \in { "ClassDef", "FunctionDef" }

\* the statements of code from line i on that form one block indented by ind:
\* raised tells a SyntaxError (IndentationError included), nodes holds the
\* statements with their line numbers and bodies, next is the line after
RECURSIVE parse_block(_, _, _)
parse_block(code, i, ind) ==
  IF i > Len(code) \/ Indent(code[i]) < ind
  THEN [ raised |-> FALSE, nodes |-> <<>>, next |-> i ]
  ELSE IF Indent(code[i]) > ind \/ ParseLine(code[i]).type = "SyntaxError"
  THEN [ raised |-> TRUE, nodes |-> <<>>, next |-> i ]
  ELSE LET stmt   == ParseLine(code[i])
           opens  == IsCompound(stmt)
           hasBody == i < Len(code) /\ Indent(code[i + 1]) > ind
           body   == IF opens /\ hasBody
                     THEN parse_block(code, i + 1, Indent(code[i + 1]))
                     ELSE [ raised |-> opens, nodes |-> <<>>, next |-> i + 1 ]
           rest   == IF body.raised
                     THEN body
                     ELSE parse_block(code, body.next, ind)
       IN  [ raised |-> rest.raised,
             nodes  |-> IF rest.raised THEN <<>>
                        ELSE << [ node |-> stmt, lineno |-> i, body |-> body.nodes ] >>
                               \o rest.nodes,
             next   |-> rest.next ]

\* ast.parse(code): raised tells a SyntaxError, body holds the statements of the
\* module with their line numbers
ast_parse(code) ==
  LET module == parse_block(code, 1, 0)
  IN  [ raised |-> module.raised, body |-> module.nodes ]

\* ast.iter_child_nodes(n) as far as they can hold a node the analysis looks
\* at: the body of a compound statement, the call of an expression statement
iter_child_nodes(n) ==
  IF n.node.type = "Expr"
  THEN << [ node |-> [ type |-> "Call", func |-> n.node.func, text |-> n.node.text ],
            lineno |-> n.lineno, body |-> <<>> ] >>
  ELSE n.body

\* a variant that does not descend into the statements
walk_from_Flat(todo) == todo

\* ast.walk: todo = deque([node]); while todo: node = todo.popleft();
\* todo.extend(iter_child_nodes(node)); yield node
RECURSIVE walk_from(_)
walk_from(todo) ==
  IF todo = <<>> THEN <<>>
  ELSE << Head(todo) >> \o walk_from(Tail(todo) \o iter_child_nodes(Head(todo)))

\* ast.walk(tree), without the Module node itself
ast_walk(tree) == walk_from(tree.body)

\* name.split('.')[0]
TopLevel(name) == name[1]

\* a variant of the except clause that lets the exception escape
except_return_Escapes(out) == [ raised |-> TRUE, value |-> out ]

\* except Exception: return pkgs / return out
except_return(out) == [ raised |-> FALSE, value |-> out ]

\* scan_imports_ast(code): whether it raises, and the set it returns
scan_imports(code) ==
  LET tree == ast_parse(code)
      nodes == ast_walk(tree)
      OfNode(n) ==
        CASE n.node.type = "Import" ->
               { TopLevel(n.node.names[k]) : k \in 1..Len(n.node.names) }
          [] n.node.type = "ImportFrom" ->
               IF n.node.module # NoModule THEN { TopLevel(n.node.module) } ELSE {}
          [] OTHER -> {}
  IN  IF tree.raised THEN except_return({})
      ELSE [ raised |-> FALSE, value |-> UNION { OfNode(nodes[i]) : i \in 1..Len(nodes) } ]

\* the set scan_imports_ast(code) returns
scan_imports_ast(code) == scan_imports(code).value

\* what outline_from_python appends for the node n: the list it goes to and
\* the (text, lineno) entries; a text is a sequence of words
outline_entries(n) ==
  CASE n.node.type = "Import" ->
         [ k |-> "imports",
           entries |-> [ j \in 1..Len(n.node.names) |->
                           [ text |-> n.node.names[j], lineno |-> n.lineno ] ] ]
    [] n.node.type = "ImportFrom" ->
         [ k |-> "imports",
           entries |-> << [ text |-> << "from" >> \o n.node.module \o << "import ..." >>,
                            lineno |-> n.lineno ] >> ]
    [] n.node.type = "FunctionDef" ->
         [ k |-> "defs", entries |-> << [ text |-> << n.node.name >>, lineno |-> n.lineno ] >> ]
    [] n.node.type = "ClassDef" ->
         [ k |-> "classes", entries |-> << [ text |-> << n.node.name >>, lineno |-> n.lineno ] >> ]
    [] n.node.type = "Call" /\ n.node.func = "print" ->
         [ k |-> "prints", entries |-> << [ text |-> << n.node.text >>, lineno |-> n.lineno ] >> ]
    [] OTHER -> [ k |-> "none", entries |-> <<>> ]

\* the entries appended to out[k] in the order of the walk
RECURSIVE appended(_, _)
appended(nodes, k) ==
  IF nodes = <<>> THEN <<>>
  ELSE LET e == outline_entries(Head(nodes))
       IN  (IF e.k = k THEN e.entries ELSE <<>>) \o appended(Tail(nodes), k)

\* a variant that leaves the list in the order of the walk
sort_by_lineno_Unsorted(q) == q

\* out[k].sort(key=lambda x: x[1]): ascending by line number, and stable
RECURSIVE sort_by_lineno(_)
sort_by_lineno(q) ==
  IF q = <<>> THEN <<>>
  ELSE LET h      == Head(q)
           rest   == sort_by_lineno(Tail(q))
           Before(x) == x.lineno < h.lineno
           NotBefore(x) == ~ Before(x)
       IN  SelectSeq(rest, Before) \o << h >> \o SelectSeq(rest, NotBefore)

OutlineKeys == { "imports", "prints", "defs", "classes" }

\* out = {"imports": [], "prints": [], "defs": [], "classes": []}
EmptyOutline == [ k \in OutlineKeys |-> <<>> ]

\* outline_from_python(code): whether it raises, and the dict it returns
outline_from_python(code) ==
  LET tree  == ast_parse(code)
      nodes == ast_walk(tree)
  IN  IF tree.raised THEN except_return(EmptyOutline)
      ELSE [ raised |-> FALSE,
             value  |-> [ k \in OutlineKeys |-> sort_by_lineno(appended(nodes, k)) ] ]

\* the list items update_outline_for_current adds for the list out[k]: the
\* header and one item "ln: text" for each entry, if there is any entry.
\* The preview of a print is its source text: the modelled texts hold no line
\* break and are shorter than the cut
outline_section(out, k) ==
  LET header == CASE k = "imports" -> "== Imports =="
                  [] k = "prints"  -> "== Prints =="
                  [] k = "defs"    -> "== Functions =="
                  [] k = "classes" -> "== Classes =="
      item(e) == CASE k = "defs"    -> << "def" >> \o e.text \o << "()" >>
                   [] k = "classes" -> << "class" >> \o e.text
                   [] OTHER         -> e.text
  IN  IF out[k] = << >> THEN << >>
      ELSE << [ lineno |-> 0, text |-> << header >> ] >>
           \o [ j \in 1..Len(out[k]) |->
                  [ lineno |-> out[k][j].lineno, text |-> item(out[k][j]) ] ]

\* update_outline_for_current: the items of the list after clear() and the
\* four sections, for the dict outline_from_python(code) returns
update_outline(code) ==
  LET out == outline_from_python(code).value
  IN  outline_section(out, "imports") \o outline_section(out, "prints")
      \o outline_section(out, "defs") \o outline_section(out, "classes")

\* every top-level module name a text of the model can import
Modules == UNION { scan_imports_ast(t) : t \in PlainTexts }

\* the order of str: the module names in ascending order
Alphabetical == << "a", "b" >>

StrLess(x, y) ==
  \E i, j \in 1..Len(Alphabetical) : Alphabetical[i] = x /\ Alphabetical[j] = y /\ i < j

\* sorted(S)
RECURSIVE sorted(_)
sorted(S) ==
  IF S = {} THEN <<>>
  ELSE LET least == CHOOSE x \in S : \A y \in S \ { x } : StrLess(x, y)
       IN  << least >> \o sorted(S \ { least })

\* the elements of a sequence
Range(s) == { s[i] : i \in 1..Len(s) }

VARIABLES
  toPlainText,   \* CodeEditor.toPlainText(): the buffer
  file_path,     \* CodeEditor.file_path, None or a path
  saved_text,    \* CodeEditor._saved_text: the last persisted snapshot
  disk,          \* the filesystem: the content of each path, or NoFile
  timer_active,  \* CodeEditor.autosave_timer.isActive()
  write_failed,  \* history: a write of the buffer to its file has failed
  importable,    \* the modules importlib.util.find_spec resolves
  threads,       \* the InstallerThread objects that exist, by slot
  installer,     \* MainWindow.installer: a slot of threads, or 0 for None
  procs,         \* the QProcess objects that exist, by slot
  proc_run,      \* MainWindow.proc_run: a slot of procs, or 0 for None
  proc_term,     \* MainWindow.proc_term: a slot of procs, or 0 for None
  autosave_input,\* MainWindow.autosave_input.text()
  interval,      \* CodeEditor.autosave_timer.interval(), in milliseconds
  tabs,          \* the multi-tab edition's EditorTab objects: path, buffer and timer interval
  current,       \* the multi-tab edition's tabs.currentIndex(), counted from 1
  outline,       \* the items of MainWindow.outline, the displayed outline
  outline_list,  \* the items of the multi-tab edition's MainWindow.outline_list
  ev             \* what the last handler did (its observable effects)

docVars == << toPlainText, file_path, saved_text, disk, timer_active, write_failed >>

instVars == << importable, threads, installer >>

procVars == << procs, proc_run, proc_term >>

timerVars == << autosave_input, interval, tabs >>

viewVars == << current, outline, outline_list >>

vars == << toPlainText, file_path, saved_text, disk, timer_active, write_failed,
           importable, threads, installer, procs, proc_run, proc_term,
           autosave_input, interval, tabs, current, outline, outline_list, ev >>

(***************************************************************************)
(* The filesystem: open(path, "w") followed by f.write(text).  The write   *)
(* succeeds, or open() raises and the file is as it was, or the file is    *)
(* truncated by open() and the write raises.                               *)
(***************************************************************************)
WriteOutcomes == { "ok", "open_raised", "write_raised" }

WriteFile(d, path, text, outcome) ==
  CASE outcome = "ok"           -> [ d EXCEPT ![path] = text ]
    [] outcome = "open_raised"  -> d
    [] outcome = "write_raised" -> [ d EXCEPT ![path] = <<>> ]

(***************************************************************************)
(* InstallerThread objects.  A slot holds a thread from its construction   *)
(* until it has finished and MainWindow.installer no longer refers to it.  *)
(***************************************************************************)
NoThread == [ pc |-> "none" ]

Slots == 1..MaxThreads

NewThread(packages) ==
  [ packages  |-> packages,  \* self.packages
    i         |-> 1,         \* the position of the for loop
    pc        |-> "loop",    \* loop: at the loop head; child: in subprocess.run; done
    succeeded |-> <<>>,
    failed    |-> <<>>,
    starting  |-> <<>>,      \* the "--- Installing pkg ---" lines emitted
    children  |-> <<>>,      \* the child processes launched: [pkg, status]
    finished  |-> 0 ]        \* how often finished was emitted

\* QThread.isRunning()
isRunning(s) == threads[s].pc \in { "loop", "child" }

Running == { s \in Slots : isRunning(s) }

(***************************************************************************)
(* QProcess objects.  A slot holds a QProcess from its construction until  *)
(* it is neither referenced by the window nor able to signal any more.     *)
(***************************************************************************)
Roles == { "run", "term" }

ProcIds == 1..MaxProcs

NoProcess == [ state |-> "none" ]

\* QProcess(self) ... start(): the object after start() has returned
NewProcess(r, started) ==
  [ role      |-> r,         \* the handler that made it: run_current_file or on_term_command
    state     |-> IF started THEN "Starting" ELSE "NotRunning",  \* QProcess.state()
    alive     |-> started,   \* the child process exists and has not terminated
    code      |-> 0,         \* the exit code of the terminated child
    killed    |-> FALSE,     \* the child was terminated by kill()
    produced  |-> 0,         \* chunks the child has written
    pipe      |-> 0,         \* chunks written and not yet read by the QProcess
    buffer    |-> 0,         \* chunks read by the QProcess, not yet by a slot
    delivered |-> 0,         \* chunks a slot has appended to the output area
    exited    |-> 0 ]        \* how often finished was emitted

(***************************************************************************)
(* The autosave interval: the text of the line edit, as the handlers read  *)
(* it                                                                      *)
(***************************************************************************)
\* what the user can leave in the line edit
InputTexts == { "", "abc", "nan", "-1", "0.5", "2", "3", "3e6" }

\* int(float(text)): the exception it raises, or the integer it returns.
\* float("") and float("abc") raise ValueError, int(float("nan")) raises
\* ValueError, the fraction of 0.5 is cut off, -1 is carried as below 1
int_float(text) ==
  CASE text = "2"   -> [ raised |-> FALSE, below_one |-> FALSE, value |-> 2 ]
    [] text = "3"   -> [ raised |-> FALSE, below_one |-> FALSE, value |-> 3 ]
    [] text = "3e6" -> [ raised |-> FALSE, below_one |-> FALSE, value |-> 3000000 ]
    [] text = "0.5" -> [ raised |-> FALSE, below_one |-> FALSE, value |-> 0 ]
    [] text = "-1"  -> [ raised |-> FALSE, below_one |-> TRUE, value |-> 0 ]
    [] OTHER        -> [ raised |-> TRUE, below_one |-> FALSE, value |-> 0 ]

\* the default of the except clause
DefaultSecs == 3

\* the largest value of the C int that QTimer.setInterval takes
IntMax == 2147483647

\* QTimer.setInterval(secs * 1000): the binding raises OverflowError if the
\* product does not fit a C int
setInterval_raises(secs) == secs > IntMax \div 1000

\* try: secs = max(1, int(float(text))) except Exception: secs = 3
secs_of(text) ==
  LET parsed == int_float(text)
  IN  IF parsed.raised
      THEN DefaultSecs
      ELSE IF parsed.value < 1 THEN 1 ELSE parsed.value

\* max(1000, int(float(text or "3")) * 1000) and the setInterval of
\* EditorTab.__init__: nothing catches what int(float()) or setInterval raise
new_tab_interval(text) ==
  LET parsed == int_float(IF text = "" THEN "3" ELSE text)
  IN  IF parsed.raised \/ setInterval_raises(parsed.value)
      THEN [ raised |-> TRUE, ms |-> 0 ]
      ELSE [ raised |-> FALSE,
             ms |-> IF parsed.value * 1000 < 1000 THEN 1000 ELSE parsed.value * 1000 ]

InitWindow ==
  /\ toPlainText = <<>>
  /\ file_path = None
  /\ saved_text = <<>>
  /\ disk \in [ Paths -> Texts \cup { NoFile } ]
  /\ timer_active = TRUE
  /\ write_failed = FALSE
  /\ importable \in SUBSET Modules
  /\ threads = [ s \in Slots |-> NoThread ]
  /\ installer = 0
  /\ proc_run = 0
  /\ proc_term = 0
  /\ autosave_input = "3"
  /\ interval = DefaultSecs * 1000
  /\ tabs = << [ path |-> None, text |-> << >>, interval |-> new_tab_interval("3").ms ] >>
  /\ current = 1
  /\ outline = << >>
  /\ outline_list = << >>

\* the window, and room for MaxProcs QProcess objects
InitObjects ==
  /\ InitWindow
  /\ procs = [ p \in ProcIds |-> NoProcess ]

Init ==
  /\ InitObjects
  /\ ev = [ op |-> "init" ]

(***************************************************************************)
(* CodeEditor                                                              *)
(***************************************************************************)
is_modified == toPlainText # saved_text

\* the user types: QPlainTextEdit.textChanged
on_editor_changed ==
  \E t \in PlainTexts :
    /\ t # toPlainText
    /\ toPlainText' = t
    /\ outline' = update_outline(t)
    /\ ev' = [ op |-> "edit" ]
    /\ UNCHANGED << file_path, saved_text, disk, timer_active, write_failed >>
    /\ UNCHANGED << instVars, procVars, timerVars, current, outline_list >>

\* a variant that takes the snapshot before the write is known to have succeeded
autosave_write_SnapshotFirst(w) ==
  [ saved_text |-> toPlainText, raised |-> FALSE, timer_active |-> timer_active ]

\* a variant that never takes the snapshot
autosave_write_NoSnapshot(w) ==
  [ saved_text |-> saved_text, raised |-> FALSE, timer_active |-> timer_active ]

\* try: open, write, self._saved_text = self.toPlainText()
\* except Exception: print("Autosave failed:", e)
\* what the body of autosave leaves: the snapshot, whether an exception leaves
\* the slot, and the timer
autosave_write(w) ==
  IF w = "ok"
  THEN [ saved_text |-> toPlainText, raised |-> FALSE, timer_active |-> timer_active ]
  ELSE [ saved_text |-> saved_text, raised |-> FALSE, timer_active |-> timer_active ]

\* tells a tick from the tick before it: 0 and 1 in turn
nth_tick == IF ev.op = "autosave" THEN 1 - ev.nth ELSE 0

\* a variant whose test leaves out is_modified
autosave_due_Always == file_path # None

\* if self.file_path and self.is_modified()
autosave_due == file_path # None /\ is_modified

\* a variant that puts the snapshot back into the widget
autosave_Reverts ==
  /\ timer_active
  /\ autosave_due
  /\ toPlainText' = saved_text
  /\ ev' = [ op |-> "autosave", nth |-> nth_tick, writes |-> 0, result |-> "unchanged",
             raised |-> FALSE ]
  /\ UNCHANGED << file_path, saved_text, disk, timer_active, write_failed >>
  /\ UNCHANGED << instVars, procVars, timerVars, viewVars >>

\* CodeEditor.autosave, the slot of autosave_timer.timeout
autosave ==
  /\ timer_active
  /\ IF autosave_due
     THEN \E w \in WriteOutcomes :
            LET after == autosave_write(w)
            IN  /\ disk' = WriteFile(disk, file_path, toPlainText, w)
                /\ saved_text' = after.saved_text
                /\ timer_active' = after.timer_active
                /\ write_failed' = (write_failed \/ w # "ok")
                /\ ev' = [ op |-> "autosave", nth |-> nth_tick, writes |-> 1, result |-> w,
                           raised |-> after.raised ]
     ELSE /\ UNCHANGED << disk, saved_text, timer_active, write_failed >>
          /\ ev' = [ op |-> "autosave", nth |-> nth_tick, writes |-> 0,
                     result |-> IF file_path = None THEN "no_path" ELSE "unchanged",
                     raised |-> FALSE ]
  /\ UNCHANGED << toPlainText, file_path >>
  /\ UNCHANGED << instVars, procVars, timerVars, viewVars >>

\* on_tree_double_clicked / open_file_dialog, then open_path_in_editor
open_path_in_editor ==
  \E path \in Paths :
    /\ IF disk[path] = NoFile
       THEN \* open() raised: the information dialog, nothing opened
            /\ UNCHANGED << toPlainText, file_path, saved_text, outline >>
            /\ ev' = [ op |-> "open", result |-> "cannot_open" ]
       ELSE /\ toPlainText' = ToPlainText(disk[path])
            /\ file_path' = path
            /\ saved_text' = disk[path]
            /\ outline' = update_outline(ToPlainText(disk[path]))
            /\ ev' = [ op |-> "open", result |-> "opened" ]
    /\ UNCHANGED << disk, timer_active, write_failed >>
    /\ UNCHANGED << instVars, procVars, timerVars, current, outline_list >>

\* the document as CodeEditor.save reads and leaves it
Doc ==
  [ file_path |-> file_path, disk |-> disk, saved_text |-> saved_text,
    write_failed |-> write_failed, returns |-> FALSE ]

\* CodeEditor.save(path) called on the document doc: the document it leaves
\* and the value it returns
save_from(doc, path, w) ==
  LET fp == IF path # None THEN path ELSE doc.file_path
  IN  IF fp = None
      THEN [ doc EXCEPT !.returns = FALSE ]
      ELSE [ file_path    |-> fp,
             disk         |-> WriteFile(doc.disk, fp, toPlainText, w),
             saved_text   |-> IF w = "ok" THEN toPlainText ELSE doc.saved_text,
             write_failed |-> (doc.write_failed \/ w # "ok"),
             returns      |-> (w = "ok") ]

\* the document doc becomes the state of the editor
becomes(doc) ==
  /\ file_path' = doc.file_path
  /\ disk' = doc.disk
  /\ saved_text' = doc.saved_text
  /\ write_failed' = doc.write_failed
  /\ UNCHANGED << toPlainText, timer_active >>

\* CodeEditor.save(path)
save(path, w) == becomes(save_from(Doc, path, w))

\* MainWindow.save_file; dialog is the path QFileDialog.getSaveFileName returns
save_file ==
  \E dialog \in Paths \cup { None }, w \in WriteOutcomes :
    /\ IF file_path = None
       THEN IF dialog = None
            THEN /\ UNCHANGED docVars
                 /\ ev' = [ op |-> "save_file", result |-> "cancelled" ]
            ELSE /\ save(dialog, w)
                 /\ ev' = [ op |-> "save_file", result |-> w ]
       ELSE /\ save(None, w)
            /\ ev' = [ op |-> "save_file", result |-> w ]
    /\ UNCHANGED << instVars, procVars, timerVars, viewVars >>

(***************************************************************************)
(* Dependency scan and the installer                                       *)
(***************************************************************************)
\* is_package_installed(pkg): importlib.util.find_spec(pkg) is not None
is_package_installed(pkg) == pkg \in importable

\* a variant that hands over every module the text names
missing_Unfiltered(code) == sorted(scan_imports_ast(code))

\* pkgs = sorted(scan_imports_ast(code));
\* missing = [p for p in pkgs if not is_package_installed(p)]
missing(code) ==
  LET NotInstalled(pkg) == ~ is_package_installed(pkg)
  IN  SelectSeq(sorted(scan_imports_ast(code)), NotInstalled)

\* self.installer = InstallerThread(missing); self.installer.start()
\* The thread self.installer referred to is released when it has finished,
\* and goes on running, referred to by nothing, when it has not.
start_installer(packages) ==
  LET released == IF installer # 0 /\ ~ isRunning(installer) THEN { installer } ELSE {}
      free == { s \in Slots : threads[s].pc = "none" } \cup released
      slot == CHOOSE s \in free : \A t \in free : s <= t
  IN  /\ free # {}
      /\ threads' = [ s \in Slots |->
                        IF s = slot THEN NewThread(packages)
                        ELSE IF s \in released THEN NoThread ELSE threads[s] ]
      /\ installer' = slot
      /\ UNCHANGED importable

\* MainWindow.install_missing_current, the slot of the "Install Missing" button
install_missing_current ==
  LET code == toPlainText
      pkgs == missing(code)
  IN  /\ IF pkgs = <<>>
         THEN /\ UNCHANGED instVars
              /\ ev' = [ op |-> "install_missing", result |-> "no_missing" ]
         ELSE /\ start_installer(pkgs)
              /\ ev' = [ op |-> "install_missing", result |-> "started", packages |-> pkgs ]
      /\ UNCHANGED << docVars, procVars, timerVars, viewVars >>

\* a variant of the tick's test that never finds the installer busy
installer_busy_Never == FALSE

\* if self.installer and self.installer.isRunning()
installer_busy == installer # 0 /\ isRunning(installer)

\* MainWindow._auto_installer_tick, the slot of auto_installer_timer.timeout
auto_installer_tick ==
  LET code == toPlainText
      pkgs == missing(code)
  IN  /\ IF pkgs = <<>>
         THEN /\ UNCHANGED instVars
              /\ ev' = [ op |-> "auto_tick", result |-> "no_missing" ]
         ELSE IF installer_busy
              THEN /\ UNCHANGED instVars
                   /\ ev' = [ op |-> "auto_tick", result |-> "busy" ]
              ELSE /\ start_installer(pkgs)
                   /\ ev' = [ op |-> "auto_tick", result |-> "started", packages |-> pkgs ]
      /\ UNCHANGED << docVars, procVars, timerVars, viewVars >>

(***************************************************************************)
(* InstallerThread.run, in the steps at which the thread can be observed:  *)
(* the head of the loop up to the launch of the child, the return of       *)
(* subprocess.run, and the end of the loop.                                *)
(***************************************************************************)
\* what a child writes to a stream: nothing, only a line break, or text
Outputs == { "", "\n", "text\n" }

\* str.strip()
strip(o) == IF o = "text\n" THEN "text" ELSE ""

\* how the call of subprocess.run starts: the child runs, or the call raises
Launches == { "launched", "raised" }

\* the thread after self.log.emit("--- Installing pkg ---")
starting_line(th, pkg) == [ th EXCEPT !.starting = Append(@, pkg) ]

\* a variant that does not wait for the child (Popen without wait)
in_subprocess_run_NoWait(th, pkg) ==
  [ th EXCEPT !.i = @ + 1,
              !.children = Append(@, [ pkg |-> pkg, status |-> "running" ]),
              !.succeeded = Append(@, pkg) ]

\* the thread blocked in subprocess.run, its child running
in_subprocess_run(th, pkg) ==
  [ th EXCEPT !.pc = "child",
              !.children = Append(@, [ pkg |-> pkg, status |-> "running" ]) ]

\* a variant in which the exception ends run: the thread dies without finished
except_branch_Escapes(th, pkg) ==
  [ th EXCEPT !.pc = "died",
              !.children = Append(@, [ pkg |-> pkg, status |-> "raised" ]) ]

\* a variant that logs the exception and forgets failed.append(pkg)
except_branch_NoAppend(th, pkg) ==
  [ th EXCEPT !.i = @ + 1,
              !.children = Append(@, [ pkg |-> pkg, status |-> "raised" ]) ]

\* except Exception: subprocess.run raised; the log line, failed.append(pkg)
except_branch(th, pkg) ==
  [ th EXCEPT !.i = @ + 1,
              !.children = Append(@, [ pkg |-> pkg, status |-> "raised" ]),
              !.failed = Append(@, pkg) ]

\* for pkg in self.packages: self.log.emit(...); subprocess.run(...) is entered
run_loop(s) ==
  LET th == threads[s]
      pkg == th.packages[th.i]
  IN  /\ th.pc = "loop"
      /\ th.i <= Len(th.packages)
      /\ \E launch \in Launches :
           IF launch = "launched"
           THEN /\ threads' = [ threads EXCEPT ![s] =
                                  in_subprocess_run(starting_line(th, pkg), pkg) ]
                /\ ev' = [ op |-> "run_loop", slot |-> s,
                           log |-> << << "--- Installing", pkg >> >> ]
           ELSE /\ threads' = [ threads EXCEPT ![s] =
                                  except_branch(starting_line(th, pkg), pkg) ]
                /\ ev' = [ op |-> "run_loop", slot |-> s,
                           log |-> << << "--- Installing", pkg >>,
                                      << "Exception while installing", pkg >> >> ]
      /\ UNCHANGED << importable, installer >>
      /\ UNCHANGED << docVars, procVars, timerVars, viewVars >>

\* the lines of the log after subprocess.run returned proc
log_of(returncode, out, err) ==
  (IF out # "" THEN << << out >> >> ELSE <<>>)
    \o (IF returncode # 0 /\ err # "" THEN << << err >> >> ELSE <<>>)

\* the same in the edition whose run emits the stripped streams as they are:
\* stdout in both branches, stderr in the else branch
log_of_v2(returncode, out, err) ==
  IF returncode = 0 THEN << << out >> >> ELSE << << out >>, << err >> >>

\* a variant that takes every returned child for a success
is_success_Always(returncode) == TRUE

\* if proc.returncode == 0
is_success(returncode) == returncode = 0

\* the thread after subprocess.run returned: succeeded.append or failed.append
returned_branch(th, pkg, returncode) ==
  [ th EXCEPT !.pc = "loop",
              !.i = @ + 1,
              !.children[Len(th.children)].status =
                  IF returncode = 0 THEN "exit0" ELSE "exit1",
              !.succeeded = IF is_success(returncode) THEN Append(@, pkg) ELSE @,
              !.failed = IF is_success(returncode) THEN @ ELSE Append(@, pkg) ]

\* subprocess.run returns: the child has exited with returncode
run_child_exit(s) ==
  LET th == threads[s]
      pkg == th.packages[th.i]
  IN  /\ th.pc = "child"
      /\ \E returncode \in { 0, 1 }, stdout \in Outputs, stderr \in Outputs :
           LET out == strip(stdout)
               err == strip(stderr)
           IN  /\ threads' = [ threads EXCEPT ![s] = returned_branch(th, pkg, returncode) ]
               /\ ev' = [ op |-> "run_child_exit", slot |-> s, returncode |-> returncode,
                          out |-> out, err |-> err,
                          log |-> log_of(returncode, out, err),
                          log_v2 |-> log_of_v2(returncode, out, err) ]
               \* pip has installed the distribution pkg, which provides the
               \* module pkg or does not
               /\ \/ UNCHANGED importable
                  \/ /\ returncode = 0
                     /\ pkg \notin importable
                     /\ importable' = importable \cup { pkg }
      /\ UNCHANGED installer
      /\ UNCHANGED << docVars, procVars, timerVars, viewVars >>

\* self.finished.emit(succeeded, failed); run returns
run_finish(s) ==
  LET th == threads[s]
  IN  /\ th.pc = "loop"
      /\ th.i > Len(th.packages)
      /\ threads' = [ threads EXCEPT ![s] =
                        IF s = installer
                        THEN [ th EXCEPT !.pc = "done", !.finished = @ + 1 ]
                        ELSE NoThread ]
      /\ ev' = [ op |-> "finished", slot |-> s, thread |-> th ]
      /\ UNCHANGED << importable, installer >>
      /\ UNCHANGED << docVars, procVars, timerVars, viewVars >>

InstallerThread_run(s) ==
  \/ run_loop(s)
  \/ run_child_exit(s)
  \/ run_finish(s)

(***************************************************************************)
(* Process sessions: the script-run role and the terminal role             *)
(***************************************************************************)
\* a variant in which both handlers keep their QProcess in self.proc_run
proc_Shared(r) == proc_run

\* self.proc_run / self.proc_term
proc(r) == IF r = "run" THEN proc_run ELSE proc_term

\* the children of the role's QProcess objects that exist and have not
\* terminated
Alive(ps, r) == { p \in DOMAIN ps : ps[p] # NoProcess /\ ps[p].role = r /\ ps[p].alive }

\* a variant that kills only a process that has reached Running
needs_kill_RunningOnly(ps, p) == p # 0 /\ ps[p].state = "Running"

\* if self.proc_run and self.proc_run.state() != QProcess.NotRunning
needs_kill(ps, p) == p # 0 /\ ps[p].state # "NotRunning"

\* a variant that records a termination by kill() even if the child had
\* already exited
kill_Marks(ps, p) ==
  [ ps EXCEPT ![p].alive = FALSE,
              ![p].killed = TRUE ]

\* QProcess.kill(): the child is terminated at once; the QProcess learns of
\* it in the event loop
kill(ps, p) ==
  [ ps EXCEPT ![p].alive = FALSE,
              ![p].killed = @ \/ ps[p].alive ]

\* the "kill prior" block
kill_prior(ps, p) == IF needs_kill(ps, p) THEN kill(ps, p) ELSE ps

\* the assignment self.proc_run = QProcess(self) drops the reference to the
\* object p; an object that is NotRunning signals nothing any more
dropped(ps, p) ==
  IF p # 0 /\ ps[p].state = "NotRunning" THEN [ ps EXCEPT ![p] = NoProcess ] ELSE ps

\* the slot _on_run_ready / _on_term_ready: readAllStandardOutput() of the
\* object the window references now, appended if it is not empty
on_ready(ps, cur) ==
  IF cur = 0
  THEN ps
  ELSE [ ps EXCEPT ![cur].delivered = @ + ps[cur].buffer,
                   ![cur].buffer = 0 ]

\* the kill prior block, the new QProcess and its start(), in the handler op;
\* started tells whether the program could be started
start_session(r, started, op) ==
  LET old      == proc(r)
      killed   == kill_prior(procs, old)
      released == dropped(killed, old)
      free     == { p \in DOMAIN released : released[p] = NoProcess }
      new      == CHOOSE p \in free : \A q \in free : p <= q
  IN  /\ free # {}
      /\ procs' = [ released EXCEPT ![new] = NewProcess(r, started) ]
      /\ proc_run' = IF r = "run" THEN new ELSE proc_run
      /\ proc_term' = IF r = "term" THEN new ELSE proc_term
      /\ ev' = [ op |-> op, result |-> "started", role |-> r, proc |-> new,
                 prior_running |-> (old # 0 /\ procs[old].state # "NotRunning"),
                 alive_at_start |-> Alive(released, r) ]

\* the answers to the "Save required" question
Replies == { "Yes", "No" }

\* MainWindow.run_current_file.  reply is the answer to the "Save required"
\* question and dialog the path of the save dialog (None: cancelled), both
\* asked only of a document without a path; saved is the document after the
\* question: as it was and fit to run if it has a path; otherwise as it was
\* if the answer is No or the save dialog is cancelled, or as save_file
\* leaves it with the dialog's path and the write outcome w1.  w2 is the
\* outcome of the write of tab.save(), whose result is not looked at.
\* reported lists the message boxes shown after the answer
run_current_file ==
  \E asked \in IF file_path # None
               THEN { [ reply |-> None, dialog |-> None, w1 |-> "ok" ] }
               ELSE [ reply : Replies, dialog : Paths \cup { None }, w1 : WriteOutcomes ],
     w2 \in WriteOutcomes, started \in BOOLEAN :
    LET reply    == asked.reply
        dialog   == asked.dialog
        w1       == asked.w1
        declined == reply = "No" \/ dialog = None
        saved    == IF file_path # None
                    THEN [ Doc EXCEPT !.returns = TRUE ]
                    ELSE IF declined THEN Doc ELSE save_from(Doc, dialog, w1)
        proceeds == saved.returns /\ saved.file_path # None
    IN  /\ IF proceeds
           THEN /\ becomes(save_from(saved, None, w2))
                /\ start_session("run", started, "run_current_file")
           ELSE /\ becomes(saved)
                /\ ev' = [ op |-> "run_current_file", result |-> "not_saved",
                           decline  |-> IF reply = "No" THEN "answered_no"
                                        ELSE IF dialog = None THEN "dialog_cancelled"
                                        ELSE "save_failed",
                           reported |-> IF declined THEN << >> ELSE << "Save error" >> ]
                /\ UNCHANGED procVars
        /\ UNCHANGED << instVars, timerVars, viewVars >>

\* MainWindow.run_current of the multi-tab edition: a warning for a tab
\* without a path; otherwise the kill prior block and the new QProcess, the
\* tab is not saved
run_current ==
  \E started \in BOOLEAN :
    /\ IF file_path = None
       THEN /\ ev' = [ op |-> "run_current", result |-> "warning",
                       reported |-> << "Please save the file before running." >> ]
            /\ UNCHANGED procVars
       ELSE start_session("run", started, "run_current")
    /\ UNCHANGED << docVars, instVars, timerVars, viewVars >>

\* the text of the terminal's input line
Commands == { "", " ", "ls" }

\* self.term_input.text().strip()
strip_cmd(cmd) == IF cmd = " " THEN "" ELSE cmd

\* MainWindow.on_term_command
on_term_command ==
  \E cmd \in Commands, started \in BOOLEAN :
    /\ IF strip_cmd(cmd) = ""
       THEN /\ ev' = [ op |-> "on_term_command", result |-> "empty" ]
            /\ UNCHANGED procVars
       ELSE start_session("term", started, "on_term_command")
    /\ UNCHANGED << docVars, instVars, timerVars, viewVars >>

\* the event loop learns that the child of object p has started
process_started(p) ==
  /\ procs[p] # NoProcess
  /\ procs[p].state = "Starting"
  /\ procs' = [ procs EXCEPT ![p].state = "Running" ]
  /\ ev' = [ op |-> "started", role |-> procs[p].role, proc |-> p ]
  /\ UNCHANGED << proc_run, proc_term, docVars, instVars, timerVars, viewVars >>

\* the child of object p writes a chunk to its merged output
child_write(p) ==
  /\ procs[p] # NoProcess
  /\ procs[p].alive
  /\ procs[p].produced < MaxChunks
  /\ procs' = [ procs EXCEPT ![p].produced = @ + 1, ![p].pipe = @ + 1 ]
  /\ ev' = [ op |-> "child_write", role |-> procs[p].role, proc |-> p,
             others_alive |-> Alive(procs, procs[p].role) \ { p } ]
  /\ UNCHANGED << proc_run, proc_term, docVars, instVars, timerVars, viewVars >>

\* object p reads its pipe and emits readyReadStandardOutput; the slot
\* connected to it is _on_run_ready / _on_term_ready
ready_read(p) ==
  /\ procs[p] # NoProcess
  /\ procs[p].state # "NotRunning"
  /\ procs[p].pipe > 0
  /\ LET r      == procs[p].role
         filled == [ procs EXCEPT ![p].buffer = @ + procs[p].pipe, ![p].pipe = 0 ]
     IN  /\ procs' = on_ready(filled, proc(r))
         /\ ev' = [ op |-> "ready_read", role |-> r, proc |-> p, read_from |-> proc(r),
                    appended |-> filled[proc(r)].buffer ]
  /\ UNCHANGED << proc_run, proc_term, docVars, instVars, timerVars, viewVars >>

\* the exit codes of a child that ends by itself
ExitCodes == { 0, 1 }

\* the child of object p ends by itself
child_exit(p) ==
  /\ procs[p] # NoProcess
  /\ procs[p].alive
  /\ \E code \in ExitCodes :
       procs' = [ procs EXCEPT ![p].alive = FALSE, ![p].code = code ]
  /\ ev' = [ op |-> "child_exit", role |-> procs[p].role, proc |-> p ]
  /\ UNCHANGED << proc_run, proc_term, docVars, instVars, timerVars, viewVars >>

\* a variant that reads what is left in the pipe and does not emit
\* readyReadStandardOutput
drained_Unread(ps, p, cur) ==
  [ ps EXCEPT ![p].buffer = @ + ps[p].pipe, ![p].pipe = 0 ]

\* the object p reads what is left in its pipe and, if there was any, emits
\* readyReadStandardOutput, whose slot reads from the object cur
drained(ps, p, cur) ==
  LET filled == [ ps EXCEPT ![p].buffer = @ + ps[p].pipe, ![p].pipe = 0 ]
  IN  IF ps[p].pipe > 0 THEN on_ready(filled, cur) ELSE filled

\* the event loop learns that the child of object p has terminated: the
\* object reads what is left in its pipe, emits readyReadStandardOutput if
\* there was any, and emits finished, whose slot appends "Process exited"
process_finished(p) ==
  /\ procs[p] # NoProcess
  /\ procs[p].state # "NotRunning"
  /\ ~ procs[p].alive
  /\ LET r      == procs[p].role
         read   == drained(procs, p, proc(r))
         ended  == [ read EXCEPT ![p].state = "NotRunning", ![p].exited = @ + 1 ]
     IN  /\ procs' = IF p = proc(r) THEN ended ELSE dropped(ended, p)
         /\ ev' = [ op |-> "process_finished", role |-> r, proc |-> p, session |-> ended[p],
                    log |-> << "Process exited with", ended[p].code >> ]
  /\ UNCHANGED << proc_run, proc_term, docVars, instVars, timerVars, viewVars >>

\* MainWindow.run_file of the edition that runs the script with
\* subprocess.Popen and waits in communicate(): the handler returns when the
\* child has exited; it appends out and err, and nothing else.  The child
\* writes chunks chunks; communicate() collects them until the end of file,
\* so none is appended while the child runs, and the child is not alive any
\* more when the handler returns to the event loop
run_file ==
  \E w \in WriteOutcomes, code \in ExitCodes, chunks \in 0..MaxChunks :
    /\ IF file_path = None
       THEN /\ UNCHANGED docVars
            /\ ev' = [ op |-> "run_file", result |-> "warning",
                       reported |-> << "Save the file before running." >> ]
       ELSE /\ becomes(save_from(Doc, None, w))
            /\ IF w # "ok"
               THEN ev' = [ op |-> "run_file", result |-> "save_raised" ]
               ELSE ev' = [ op |-> "run_file", result |-> "ran", code |-> code,
                            exit_notifications |-> 0,
                            produced |-> chunks,
                            appended_running |-> 0,
                            appended_exited |-> chunks,
                            child_alive |-> FALSE ]
    /\ UNCHANGED << instVars, procVars, timerVars, viewVars >>

\* what the event loop and the child of object p do
QProcess_events(p) ==
  \/ process_started(p)
  \/ child_write(p)
  \/ ready_read(p)
  \/ child_exit(p)
  \/ process_finished(p)

(***************************************************************************)
(* The autosave interval: the handlers                             *)
(***************************************************************************)
\* the user types into the line edit; editingFinished is not yet emitted
autosave_input_edited ==
  \E text \in InputTexts :
    /\ text # autosave_input
    /\ autosave_input' = text
    /\ ev' = [ op |-> "autosave_input_edited" ]
    /\ UNCHANGED << interval, tabs, docVars, instVars, procVars, viewVars >>

\* a variant that saves the buffer as a tick would
on_autosave_changed_Writes ==
  /\ file_path # None
  /\ disk' = WriteFile(disk, file_path, toPlainText, "ok")
  /\ saved_text' = toPlainText
  /\ interval' = secs_of(autosave_input) * 1000
  /\ ev' = [ op |-> "on_autosave_changed", malformed |-> FALSE, raised |-> FALSE,
             applied |-> interval' ]
  /\ UNCHANGED << toPlainText, file_path, timer_active, write_failed >>
  /\ UNCHANGED << autosave_input, tabs, instVars, procVars, viewVars >>

\* MainWindow.on_autosave_changed, the slot of autosave_input.editingFinished
on_autosave_changed ==
  LET malformed == int_float(autosave_input).raised
      secs      == secs_of(autosave_input)
  IN  /\ autosave_input' = IF malformed THEN "3" ELSE autosave_input
      /\ IF setInterval_raises(secs)
         THEN /\ UNCHANGED interval
              /\ ev' = [ op |-> "on_autosave_changed", malformed |-> malformed,
                         raised |-> TRUE, applied |-> 0 ]
         ELSE /\ interval' = secs * 1000
              /\ ev' = [ op |-> "on_autosave_changed", malformed |-> malformed,
                         raised |-> FALSE, applied |-> secs * 1000 ]
      /\ UNCHANGED << tabs, docVars, instVars, procVars, viewVars >>

\* MainWindow.on_autosave_changed of the multi-tab edition: every tab's timer
on_autosave_changed_tabs ==
  LET malformed == int_float(autosave_input).raised
      secs      == secs_of(autosave_input)
  IN  /\ autosave_input' = IF malformed THEN "3" ELSE autosave_input
      /\ IF setInterval_raises(secs)
         THEN /\ UNCHANGED tabs
              /\ ev' = [ op |-> "on_autosave_changed_tabs", malformed |-> malformed,
                         raised |-> TRUE, applied |-> 0 ]
         ELSE /\ tabs' = [ i \in DOMAIN tabs |-> [ tabs[i] EXCEPT !.interval = secs * 1000 ] ]
              /\ ev' = [ op |-> "on_autosave_changed_tabs", malformed |-> malformed,
                         raised |-> FALSE, applied |-> secs * 1000 ]
      /\ UNCHANGED << interval, docVars, instVars, procVars, viewVars >>

\* Path.suffix
suffix(path) == IF path = "main.py" THEN ".py" ELSE ""

\* the tabs that hold the file path
tabs_of(path) == { i \in DOMAIN tabs : tabs[i].path = path }

\* MainWindow.open_file_dialog and open_path_in_tab of the multi-tab edition:
\* a tab that holds the path is made the current one and nothing else is done;
\* otherwise a tab is made, becomes the current one, and the outline is
\* updated for a .py path
open_path_in_tab ==
  \E path \in Paths :
    LET read == new_tab_interval(autosave_input)
        text == ToPlainText(disk[path])
    IN  /\ IF disk[path] = NoFile
           THEN /\ UNCHANGED << tabs, viewVars >>
                /\ ev' = [ op |-> "open_path_in_tab", result |-> "cannot_open" ]
           ELSE IF tabs_of(path) # {}
           THEN /\ current' = CHOOSE i \in tabs_of(path) : \A j \in tabs_of(path) : i <= j
                /\ UNCHANGED << tabs, outline, outline_list >>
                /\ ev' = [ op |-> "open_path_in_tab", result |-> "already_open" ]
           ELSE IF read.raised
           THEN /\ UNCHANGED << tabs, viewVars >>
                /\ ev' = [ op |-> "open_path_in_tab", result |-> "read",
                           malformed |-> int_float(autosave_input).raised /\ autosave_input # "",
                           raised |-> TRUE, applied |-> 0 ]
           ELSE /\ tabs' = Append(tabs, [ path |-> path, text |-> text, interval |-> read.ms ])
                /\ current' = Len(tabs) + 1
                /\ outline_list' = IF suffix(path) = ".py" THEN update_outline(text)
                                   ELSE outline_list
                /\ UNCHANGED outline
                /\ ev' = [ op |-> "open_path_in_tab", result |-> "read",
                           malformed |-> FALSE, raised |-> FALSE, applied |-> read.ms ]
        /\ UNCHANGED << autosave_input, interval, docVars, instVars, procVars >>

\* MainWindow.new_tab of the multi-tab edition: an empty tab without a path is
\* made and becomes the current one
new_tab ==
  LET read == new_tab_interval(autosave_input)
  IN  /\ Len(tabs) < MaxTabs
      /\ IF read.raised
         THEN /\ UNCHANGED << tabs, viewVars >>
              /\ ev' = [ op |-> "new_tab", raised |-> TRUE ]
         ELSE /\ tabs' = Append(tabs, [ path |-> None, text |-> << >>, interval |-> read.ms ])
              /\ current' = Len(tabs) + 1
              /\ UNCHANGED << outline, outline_list >>
              /\ ev' = [ op |-> "new_tab", raised |-> FALSE ]
      /\ UNCHANGED << autosave_input, interval, docVars, instVars, procVars >>

\* the user types in the current tab of the multi-tab edition: textChanged and
\* its slot MainWindow.on_editor_changed, which updates the outline only for
\* a tab whose path ends in .py
on_editor_changed_tabs ==
  \E t \in PlainTexts :
    LET tab == tabs[current]
    IN  /\ t # tab.text
        /\ tabs' = [ tabs EXCEPT ![current].text = t ]
        /\ outline_list' = IF tab.path # None /\ suffix(tab.path) = ".py"
                           THEN update_outline(t)
                           ELSE outline_list
        /\ ev' = [ op |-> "edit_tab" ]
        /\ UNCHANGED << current, outline >>
        /\ UNCHANGED << autosave_input, interval, docVars, instVars, procVars >>

\* the user clicks a tab of the QTabWidget of the multi-tab edition: it
\* becomes the current one; no slot is connected to currentChanged
tab_bar_clicked ==
  \E i \in DOMAIN tabs :
    /\ i # current
    /\ current' = i
    /\ ev' = [ op |-> "tab_bar_clicked" ]
    /\ UNCHANGED << tabs, outline, outline_list >>
    /\ UNCHANGED << autosave_input, interval, docVars, instVars, procVars >>

(***************************************************************************)
(* The source analyzer applied to a text                                   *)
(***************************************************************************)
\* outline_from_python(code) and scan_imports_ast(code) are called on the text
\* that is given
analyze ==
  /\ ev.op = "source"
  /\ ev' = [ op |-> "analyze", code |-> ev.code,
             outline |-> outline_from_python(ev.code),
             pkgs |-> scan_imports(ev.code) ]
  /\ UNCHANGED << docVars, instVars, procVars, timerVars, viewVars >>

NextDoc ==
  \/ on_editor_changed
  \/ autosave
  \/ open_path_in_editor
  \/ save_file

\* the document and its autosave, in an environment that resolves every module
InitDoc == Init /\ importable = Modules

SpecDoc == InitDoc /\ [][NextDoc]_vars

NextInstall ==
  \/ on_editor_changed
  \/ install_missing_current
  \/ auto_installer_tick
  \/ \E s \in Slots : InstallerThread_run(s)

\* the dependency scan and the installer, in a session that opens no file
InitInstall == Init /\ disk = [ p \in Paths |-> NoFile ]

SpecInstall == InitInstall /\ [][NextInstall]_vars

\* The operating system schedules every thread that can run, and a child
\* process that was launched exits: each step of run that can be taken is taken.
FairInstall ==
  /\ InitInstall
  /\ [][NextInstall]_vars
  /\ \A s \in Slots : WF_vars(InstallerThread_run(s))

NextInterval ==
  \/ autosave_input_edited
  \/ on_autosave_changed
  \/ on_autosave_changed_tabs
  \/ open_path_in_tab
  \/ on_editor_changed
  \/ save_file

SpecInterval == InitDoc /\ [][NextInterval]_vars

NextAnalyze == analyze

InitAnalyze ==
  /\ InitObjects
  /\ importable = Modules
  /\ disk = [ p \in Paths |-> NoFile ]
  /\ \E code \in Sources : ev = [ op |-> "source", code |-> code ]

SpecAnalyze == InitAnalyze /\ [][NextAnalyze]_vars

NextProc ==
  \/ run_current_file
  \/ run_file
  \/ on_term_command
  \/ \E p \in ProcIds : QProcess_events(p)

InitProc == Init /\ importable = Modules /\ disk = [ p \in Paths |-> NoFile ]

SpecProc == InitProc /\ [][NextProc]_vars

\* the run request of the three editions, with edits and saves between
NextRun ==
  \/ on_editor_changed
  \/ save_file
  \/ run_current_file
  \/ run_current
  \/ run_file
  \/ \E p \in ProcIds : process_finished(p)

SpecRun == InitProc /\ [][NextRun]_vars

\* the sessions of the two roles without their output, with room for one
\* QProcess object more: the one a role refers to, the killed one it referred
\* to before, and the one of the other role
NextRoles ==
  \/ run_current_file
  \/ on_term_command
  \/ \E p \in DOMAIN procs : process_started(p)
  \/ \E p \in DOMAIN procs : child_exit(p)
  \/ \E p \in DOMAIN procs : process_finished(p)

InitRoles ==
  /\ InitWindow
  /\ procs = [ p \in 1..(MaxProcs + 1) |-> NoProcess ]
  /\ importable = Modules
  /\ disk = [ p \in Paths |-> NoFile ]
  /\ ev = [ op |-> "init" ]

SpecRoles == InitRoles /\ [][NextRoles]_vars

\* the outline of the single-document edition and of the multi-tab edition
NextOutline ==
  \/ on_editor_changed
  \/ open_path_in_editor
  \/ open_path_in_tab
  \/ new_tab
  \/ on_editor_changed_tabs
  \/ tab_bar_clicked

\* a session whose only file holds two imports
InitOutline == InitDoc /\ disk = [ p \in Paths |-> << "import b.x, a" >> ]

SpecOutline == InitOutline /\ [][NextOutline]_vars

(***************************************************************************)
(* The autosave scheduler's properties                                     *)
(***************************************************************************)
\* C7: an autosave tick writes exactly if the Document has a backing location
\* and its buffer differs from the snapshot; after a successful write the
\* snapshot and the file equal the buffer; otherwise nothing is written and the
\* snapshot is as it was.
C7_TickWrites ==
  [][ ev'.op = "autosave" =>
        LET due == file_path # None /\ toPlainText # saved_text
        IN  /\ ev'.writes = (IF due THEN 1 ELSE 0)
            /\ (due /\ ev'.result = "ok") =>
                  saved_text' = toPlainText' /\ disk'[file_path'] = toPlainText'
            /\ ~ due => disk' = disk /\ saved_text' = saved_text ]_vars

\* a tick has written a buffer that differed from the snapshot
C7_Witness ==
  /\ ev.op = "autosave"
  /\ ev.writes = 1
  /\ ev.result = "ok"
  /\ disk[file_path] = toPlainText
  /\ saved_text = toPlainText
  /\ toPlainText # <<>>

\* C8, as stated: with a backing location and succeeding writes, a tick writes
\* at most once, a tick that follows an edit changing the buffer writes exactly
\* once, and a further tick with no edit in between writes nothing.
C8_AsStated ==
  [][ (ev'.op = "autosave" /\ file_path # None /\ ~ write_failed') =>
        /\ ev'.writes <= 1
        /\ ev.op = "edit" => ev'.writes = 1
        /\ ev.op = "autosave" => ev'.writes = 0 ]_vars

\* C8, amended: with a backing location and succeeding writes, a tick writes at
\* most once, a tick at which the buffer differs from the snapshot writes
\* exactly once, and a further tick with no edit in between writes nothing.
C8_OncePerChange ==
  [][ (ev'.op = "autosave" /\ file_path # None /\ ~ write_failed') =>
        /\ ev'.writes <= 1
        /\ toPlainText # saved_text => ev'.writes = 1
        /\ ev.op = "autosave" => ev'.writes = 0 ]_vars

\* the snapshot has caught up: a tick found the buffer of a saved Document unchanged
C8_Witness ==
  /\ ev.op = "autosave"
  /\ ev.result = "unchanged"
  /\ file_path # None
  /\ disk[file_path] = toPlainText
  /\ toPlainText # <<>>

\* C9: when the write of a tick fails, no exception leaves the tick, the
\* snapshot is as it was and the Document still modified, the timer is active,
\* and the next tick attempts the write again.
C9_FailedWrite ==
  [][ (ev'.op = "autosave" /\ ev'.result \in { "open_raised", "write_raised" }) =>
        /\ ~ ev'.raised
        /\ saved_text' = saved_text
        /\ toPlainText' # saved_text'
        /\ timer_active'
        /\ file_path' # None ]_vars

\* a tick's write has failed at open()
C9_Witness ==
  /\ ev.op = "autosave"
  /\ ev.result = "open_raised"
  /\ toPlainText # saved_text
  /\ timer_active

\* C10: an autosave tick changes neither the buffer nor the backing location,
\* whatever its outcome.
C10_BufferUntouched ==
  [][ ev'.op = "autosave" => toPlainText' = toPlainText /\ file_path' = file_path ]_vars

\* a tick has truncated the file and failed, and the buffer is still there
C10_Witness ==
  /\ ev.op = "autosave"
  /\ ev.result = "write_raised"
  /\ disk[file_path] = <<>>
  /\ toPlainText # <<>>

(***************************************************************************)
(* The installer's properties                                              *)
(***************************************************************************)
\* the threads that exist, and the one whose finished signal was just emitted
Observed ==
  { threads[s] : s \in { t \in Slots : threads[t].pc # "none" } }
    \cup (IF ev.op = "finished" THEN { ev.thread } ELSE {})

\* how often x occurs in the sequence q
Count(q, x) == Cardinality({ k \in 1..Len(q) : q[k] = x })

\* C1: at most one Installer Task is running at any instant, whether the start
\* requests come from the periodic scan tick or from the manual request.
C1_SingleFlight == Cardinality(Running) <= 1

\* C3: when an Installer Task finishes, succeeded and failed are disjoint, their
\* union is the set of the input modules, and every input module occurs in
\* exactly one of them, exactly once.
C3_Partition ==
  ev.op = "finished" =>
    LET th == ev.thread
    IN  /\ Range(th.succeeded) \cap Range(th.failed) = {}
        /\ Range(th.succeeded) \cup Range(th.failed) = Range(th.packages)
        /\ \A pkg \in Range(th.packages) :
             Count(th.succeeded, pkg) + Count(th.failed, pkg) = 1

\* a task of two modules has finished with one in each list
C3_Witness ==
  /\ ev.op = "finished"
  /\ Len(ev.thread.packages) = 2
  /\ Len(ev.thread.succeeded) = 1
  /\ Len(ev.thread.failed) = 1

\* C4: every started Installer Task eventually emits finished, and emits it
\* once: only a running task emits it, and the task is not running afterwards.
C4_FinishedOnce ==
  /\ \A s \in Slots :
       (threads[s].pc \in { "loop", "child", "died" }) ~> (ev.op = "finished" /\ ev.slot = s)
  /\ [][ ev'.op = "finished" =>
           /\ isRunning(ev'.slot)
           /\ threads'[ev'.slot].pc \in { "done", "none" }
           /\ ev'.thread = threads[ev'.slot] ]_vars
  /\ [](\A s \in Slots : threads[s].pc = "done" => threads[s].finished = 1)

\* a task has finished after a launch failure, a failed and a successful install
C4_Witness ==
  /\ ev.op = "finished"
  /\ \E k \in 1..Len(ev.thread.children) : ev.thread.children[k].status = "raised"
  /\ \E k \in 1..Len(ev.thread.children) : ev.thread.children[k].status \in { "exit0", "exit1" }

\* C5: a task installs its modules one at a time in input order: every child but
\* the last launched has completed, the children were launched in input order,
\* and the "starting" lines are one per module begun, in input order.
C5_Serial ==
  \A th \in Observed :
    /\ \A k \in 1..Len(th.children) :
         th.children[k].status = "running" => k = Len(th.children) /\ th.pc = "child"
    /\ Len(th.children) <= Len(th.packages)
    /\ \A k \in 1..Len(th.children) : th.children[k].pkg = th.packages[k]
    /\ Len(th.starting) = Len(th.children)
    /\ th.starting = SubSeq(th.packages, 1, Len(th.starting))
    /\ th.pc \in { "done", "none" } => th.starting = th.packages

\* the second child of a task runs after the first has completed
C5_Witness ==
  \E s \in Slots :
    /\ threads[s].pc = "child"
    /\ Len(threads[s].children) = 2
    /\ threads[s].children[1].status = "exit1"

\* C6: a module is in succeeded exactly if its child was launched and exited
\* with code 0, and in failed if the exit code was not 0 or the launch raised.
C6_Classified ==
  \A th \in Observed :
    \A k \in 1..Len(th.children) :
      LET c == th.children[k]
      IN  /\ c.pkg \in Range(th.succeeded) <=> c.status = "exit0"
          /\ c.status \in { "exit1", "raised" } => c.pkg \in Range(th.failed)
          /\ c.status = "running" => c.pkg \notin Range(th.failed)

\* pkgA exits 0 and pkgB exits nonzero: succeeded = [pkgA], failed = [pkgB]
C6_Witness ==
  /\ ev.op = "finished"
  /\ ev.thread.packages = << "a", "b" >>
  /\ ev.thread.children = << [ pkg |-> "a", status |-> "exit0" ],
                             [ pkg |-> "b", status |-> "exit1" ] >>
  /\ ev.thread.succeeded = << "a" >>
  /\ ev.thread.failed = << "b" >>

(***************************************************************************)
(* The process sessions' properties                                        *)
(***************************************************************************)
StartOps == { "run_current_file", "on_term_command" }

\* C2: in each role (script-run, terminal) at most one external process is
\* alive at any instant; when a session is started in a role whose previous
\* session still runs, the previous process has been killed at the moment
\* the new one is started, and no process writes output while another
\* process of its role is alive.
C2_OnePerRole ==
  /\ \A r \in Roles : Cardinality(Alive(procs, r)) <= 1
  /\ (ev.op \in StartOps /\ ev.result = "started") => ev.alive_at_start = {}
  /\ ev.op = "child_write" => ev.others_alive = {}

\* a script is started while the previous script still runs: the previous
\* process is killed, its QProcess object has not yet learned of it, and the
\* new process lives
C2_Witness ==
  /\ ev.op = "run_current_file"
  /\ ev.result = "started"
  /\ ev.prior_running
  /\ procs[ev.proc].alive
  /\ \E q \in ProcIds \ { ev.proc } :
       /\ procs[q] # NoProcess
       /\ procs[q].role = "run"
       /\ procs[q].killed
       /\ procs[q].state # "NotRunning"

(***************************************************************************)
(* The autosave interval's properties                                      *)
(***************************************************************************)
\* the handlers that read the configured interval text
ReadsInterval ==
  \/ ev.op \in { "on_autosave_changed", "on_autosave_changed_tabs" }
  \/ ev.op = "open_path_in_tab" /\ ev.result = "read"

C13_NoWrite ==
  [][ ev'.op \in { "on_autosave_changed", "on_autosave_changed_tabs" } =>
        /\ UNCHANGED << toPlainText, saved_text, file_path, disk >>
        /\ Len(tabs') = Len(tabs)
        /\ \A i \in DOMAIN tabs : tabs'[i].path = tabs[i].path ]_vars

\* the interval was changed to 2 seconds while the Document has a backing
\* location and unsaved changes, and the file still holds the old content
C13_Witness ==
  /\ ev.op = "on_autosave_changed"
  /\ ~ ev.raised
  /\ interval = 2000
  /\ file_path # None
  /\ toPlainText # saved_text
  /\ disk[file_path] = saved_text

(***************************************************************************)
(* The source analyzer's properties                                        *)
(***************************************************************************)
\* C14: for every source text that fails to parse, outline_from_python
\* returns an outline whose four sequences are all empty and
\* scan_imports_ast returns the empty set; neither raises to the caller.
C14_ParseFailure ==
  (ev.op = "analyze" /\ ast_parse(ev.code).raised) =>
    /\ ~ ev.outline.raised
    /\ \A k \in OutlineKeys : ev.outline.value[k] = <<>>
    /\ ~ ev.pkgs.raised
    /\ ev.pkgs.value = {}

\* a text whose first line is a valid import and whose second line is
\* indented without reason has been analysed
C14_Witness ==
  /\ ev.op = "analyze"
  /\ ev.code = << "import b.x, a", "  import a.z" >>
  /\ ast_parse(ev.code).raised
  /\ ev.pkgs.value = {}

\* C15: for every source text that parses, each of the four outline sequences
\* (imports, prints, defs, classes) is sorted by non-decreasing line number,
\* and every line number is a 1-based line of the source.
C15_Sorted ==
  (ev.op = "analyze" /\ ~ ast_parse(ev.code).raised) =>
    \A k \in OutlineKeys :
      LET q == ev.outline.value[k]
      IN  /\ \A i \in 1..Len(q), j \in 1..Len(q) : i < j => q[i].lineno <= q[j].lineno
          /\ \A i \in 1..Len(q) : q[i].lineno \in 1..Len(ev.code)

\* a text has been analysed in which the walk meets an import of a later line
\* before an import of an earlier line
C15_Witness ==
  /\ ev.op = "analyze"
  /\ ~ ast_parse(ev.code).raised
  /\ LET met == appended(ast_walk(ast_parse(ev.code)), "imports")
     IN  \E i \in 1..Len(met), j \in 1..Len(met) : i < j /\ met[i].lineno > met[j].lineno

\* the modules a line names in a plain import or in a from-import with a
\* module name
NamedBy(l) ==
  LET stmt == ParseLine(l)
  IN  CASE stmt.type = "Import" -> Range(stmt.names)
        [] stmt.type = "ImportFrom" /\ stmt.module # NoModule -> { stmt.module }
        [] OTHER -> {}

\* C16: scan_imports_ast returns exactly the set of the top-level segments
\* (the text before the first dot) of every module named by a plain import
\* and by every from-import that names a module, at any nesting depth, with
\* duplicates collapsed; a relative from-import without a module name
\* contributes nothing.
C16_TopLevelSet ==
  (ev.op = "analyze" /\ ~ ast_parse(ev.code).raised) =>
    ev.pkgs.value =
      { m[1] : m \in UNION { NamedBy(ev.code[i]) : i \in 1..Len(ev.code) } }

\* a text has been analysed that names the module a twice, once as a.z
\* inside a function body, and the module b.x
C16_Witness ==
  /\ ev.op = "analyze"
  /\ ev.code = << "def f():", "  import a.z", "import b.x, a" >>
  /\ ev.pkgs.value = { "a", "b" }

(***************************************************************************)
(* The dependency resolver's properties                                    *)
(***************************************************************************)
\* an Installer Task has just been started, by the button or by the tick
TaskStarted == ev.op \in { "install_missing", "auto_tick" } /\ ev.result = "started"

\* C17: the module sequence handed to an Installer Task is exactly the members
\* of the buffer's Module Reference Set that the availability check reports
\* unavailable, each once, in ascending lexicographic order; an available
\* module is never in it.
C17_MissingSorted ==
  TaskStarted =>
    LET handed == threads[installer].packages
    IN  /\ handed = ev.packages
        /\ Range(handed) = { m \in scan_imports_ast(toPlainText) : m \notin importable }
        /\ Len(handed) = Cardinality(Range(handed))
        /\ \A i \in 1..Len(handed), j \in 1..Len(handed) :
             i < j => StrLess(handed[i], handed[j])

\* a task is started for b alone, because the buffer names a and b and a is
\* available
C17_Witness ==
  /\ TaskStarted
  /\ scan_imports_ast(toPlainText) = { "a", "b" }
  /\ importable = { "a" }
  /\ threads[installer].packages = << "b" >>

\* the QProcess objects whose child has already exited, by itself or by kill()
Exited == { p \in ProcIds : procs[p] # NoProcess /\ ~ procs[p].alive }

C19_ExitOnce ==
  /\ \A p \in ProcIds : procs[p] # NoProcess => procs[p].exited <= 1
  /\ (ev.op = "process_finished" /\ ~ ev.session.killed) =>
       /\ ev.session.exited = 1
       /\ ev.log = << "Process exited with", ev.session.code >>
  /\ (ev.op = "run_file" /\ ev.result = "ran") => ev.exit_notifications = 1

\* C20: within one Process Session the exit notification is the last event:
\* once the exit notification of a session has been emitted, no output chunk
\* of that session's process is delivered to the log, in any interleaving of
\* output-ready and finished events.
C20_ExitLast ==
  [][ \A p \in ProcIds :
        ( /\ procs[p] # NoProcess
          /\ procs[p].exited > 0
          /\ procs'[p] # NoProcess
          /\ procs'[p].exited > 0 )
        => procs'[p].delivered = procs[p].delivered ]_vars

\* the QProcess the window refers to has emitted its exit notification and all
\* that its child wrote was delivered before, while the QProcess of an earlier
\* session of the role, killed with output left in its pipe, has just emitted
\* readyReadStandardOutput and finished
C20_Witness ==
  /\ ev.op = "process_finished"
  /\ ev.proc # proc(ev.role)
  /\ ev.session.produced > 0
  /\ ev.session.delivered = 0
  /\ LET cur == procs[proc(ev.role)]
     IN  /\ cur.exited = 1
         /\ cur.produced > 0
         /\ cur.delivered = cur.produced

(***************************************************************************)
(* Properties of the third group: delivery, the two triggers of the        *)
(* installer, the run request, threads, roles, the outline                 *)
(***************************************************************************)
\* the QProcess objects the window refers to whose child is alive and has
\* written output that has not been read
Pending == { p \in ProcIds : /\ procs[p] # NoProcess
                             /\ p = proc(procs[p].role)
                             /\ procs[p].alive
                             /\ procs[p].pipe > 0 }

\* C21: output of a running script is delivered incrementally: a chunk the
\* child process has produced is appended to the log while the process is
\* still running, not only after it has exited.
C21_Incremental ==
  /\ \A p \in Pending : ENABLED ready_read(p)
  /\ (ev.op = "ready_read" /\ ev.proc = ev.read_from /\ procs[ev.proc].alive) =>
       ev.appended > 0
  /\ (ev.op = "run_file" /\ ev.result = "ran" /\ ev.produced > 0) =>
       ev.appended_running > 0

\* C22: when a periodic scan tick finds missing modules while an Installer
\* Task is running, it logs a busy notice, starts no task and queues nothing:
\* the running task and its module list are unchanged, and the skipped modules
\* are attempted only if a later tick finds them missing again.
C22_BusyTick ==
  [][ ( /\ ev'.op = "auto_tick"
        /\ missing(toPlainText) # << >>
        /\ installer # 0
        /\ threads[installer].pc \in { "loop", "child" } )
      => ( /\ ev'.result = "busy"
           /\ threads' = threads
           /\ installer' = installer
           /\ importable' = importable ) ]_vars

\* a tick has found b missing while the task started for a is running, and
\* nothing but the task for a exists
C22_Witness ==
  /\ ev.op = "auto_tick"
  /\ ev.result = "busy"
  /\ missing(toPlainText) = << "b" >>
  /\ threads[installer].packages = << "a" >>
  /\ threads[installer].pc \in { "loop", "child" }
  /\ \A s \in Slots \ { installer } : threads[s] = NoThread

\* C23: the manual "install missing" request and the periodic scan tick have
\* identical semantics: from the same state (buffer, module availability,
\* installer running or idle) both make the same decision whether to start an
\* Installer Task and, when they start one, pass the same module sequence.
C23_SameDecision ==
  \A pkgs \in SeqsUpTo(Modules, Cardinality(Modules)) :
    (ENABLED ( /\ install_missing_current
               /\ ev'.result = "started"
               /\ ev'.packages = pkgs ))
      <=> (ENABLED ( /\ auto_installer_tick
                     /\ ev'.result = "started"
                     /\ ev'.packages = pkgs ))

\* the handlers of a run request
RunOps == { "run_current_file", "run_current", "run_file" }

C25_OffUiThread ==
  /\ []( (ev.op \in StartOps \cup { "run_current" } /\ ev.result = "started") =>
          (procs[ev.proc].state = "Starting" => procs[ev.proc].alive) )
  /\ []( (ev.op = "run_file" /\ ev.result = "ran") => ev.child_alive )
  /\ []( TaskStarted =>
          /\ threads[installer].pc = "loop"
          /\ threads[installer].children = << >> )
  /\ [][ ev'.op \in { "edit", "open" } => outline' = outline ]_vars

\* C26: for each module an Installer Task emits the captured standard output
\* as a log line only if it is non-empty, and emits the captured standard
\* error only if the exit code is non-zero and the text is non-empty; no empty
\* log line is ever emitted.
C26_LogLines ==
  ev.op = "run_child_exit" =>
    \A log \in { ev.log, ev.log_v2 } :
      /\ \A j \in 1..Len(log) : log[j] # << "" >>
      /\ Len(log) <= (IF ev.out # "" THEN 1 ELSE 0)
                       + (IF ev.returncode # 0 /\ ev.err # "" THEN 1 ELSE 0)

\* C27: the script-run role and the terminal role are independent: starting or
\* replacing a session in one role never kills, replaces or otherwise changes
\* the session of the other role, so the two roles' processes can be alive at
\* the same time.
C27_RolesIndependent ==
  [][ ( ev'.op \in StartOps /\ ev'.result = "started" ) =>
        /\ ev'.role = "run" => proc_term' = proc_term
        /\ ev'.role = "term" => proc_run' = proc_run
        /\ \A p \in DOMAIN procs :
             ( procs[p] # NoProcess /\ procs[p].role # ev'.role ) => procs'[p] = procs[p] ]_vars

\* a terminal command has replaced, by killing it, a command that was still
\* running, while the script of the script-run role is alive: the script is
\* alive still, and so is the new command
C27_Witness ==
  /\ ev.op = "on_term_command"
  /\ ev.result = "started"
  /\ ev.prior_running
  /\ \E q \in DOMAIN procs : /\ procs[q] # NoProcess
                              /\ procs[q].role = "term"
                              /\ procs[q].killed
  /\ proc_run # 0
  /\ procs[proc_run].alive
  /\ procs[proc_term].alive

\* C28: after every change of the active Document's buffer (user edit or file
\* open), and after every change of which Document is active, the displayed
\* outline equals the Analyze result of the active Document's current buffer,
\* recomputed wholesale; it never shows entries of an older buffer or of
\* another Document.
C28_OutlineCurrent ==
  /\ outline = update_outline(toPlainText)
  /\ outline_list = update_outline(tabs[current].text)

\* C29: whenever a script-run process is started for a Document, the content
\* of its backing file at that moment equals the Document's current buffer and
\* the snapshot equals the buffer: a run persists the buffer first and does
\* not start the process if that save failed.
C29_RunPersists ==
  ( ev.op \in RunOps /\ ev.result \in { "started", "ran" } ) =>
    /\ file_path # None
    /\ disk[file_path] = toPlainText
    /\ saved_text = toPlainText

====
